---- MODULE Spec2Model ----
(***************************************************************************)
(* State-machine model of the Alpaca broker plugin (src/src/lib.rs,        *)
(* src/src/alpaca.rs, src/src/http.rs).                                    *)
(*                                                                         *)
(* Conventions.  Rust String values are TLA+ strings.  An f64 is modelled  *)
(* by an integer (every number used here is integer valued, and -0.0 and   *)
(* 0.0 are the one integer 0).  Option<T> is None / Some(v); Result<T,     *)
(* String> is Ok(v) / Err(msg); a Rust panic is the third outcome Panic.   *)
(***************************************************************************)
EXTENDS Integers, Sequences, FiniteSets, TLC

VARIABLES
    client,      \* BrokerState.client : Option<AlpacaClient>
    orders,      \* BrokerState.orders : HashMap<String, Order>
    call,        \* the last entry-point call: request, exchanges issued, response
    prev,        \* client and orders as they were when that call started
    lastInit,    \* history: the configuration of the last successful initialize
    mapIn,       \* brokerage payload handed to a mapping function
    mapOut,      \* the value (or error) the mapping function produced
    pc,          \* per host thread: position inside its entry-point call
    lockHolder,  \* STATE mutex: the thread holding it, 0 when free
    poisoned,    \* STATE mutex: poison flag
    treq,        \* per host thread: the request it is serving
    snap,        \* per host thread: the client it read under the lock
    tout         \* per host thread: the outcome of its call

vars == <<client, orders, call, prev, lastInit, mapIn, mapOut,
          pc, lockHolder, poisoned, treq, snap, tout>>

-----------------------------------------------------------------------------
(* Option / Result                                                         *)

None == [tag |-> "None"]
Some(v) == [tag |-> "Some", val |-> v]
Ok(v) == [tag |-> "Ok", val |-> v]
Err(e) == [tag |-> "Err", err |-> e]
Panic == [tag |-> "Panic"]

is_some(o) == o.tag = "Some"
unwrap_or(o, d) == IF o.tag = "Some" THEN o.val ELSE d

-----------------------------------------------------------------------------
(* JSON values as far as serde distinguishes them for the fields modelled  *)

JAbsent == [t |-> "absent"]
JNull == [t |-> "null"]
JStr(s) == [t |-> "str", s |-> s]
JInt(n) == [t |-> "int", n |-> n]
JBool(b) == [t |-> "bool", b |-> b]

\* serde_json::Value::get(..).and_then(|v| v.as_str())
as_str(v) == IF v.t = "str" THEN Some(v.s) ELSE None
\* serde_json::Value::get(..).and_then(|v| v.as_bool())
as_bool(v) == IF v.t = "bool" THEN Some(v.b) ELSE None

-----------------------------------------------------------------------------
(* Numeric and timestamp parsing                                           *)

\* The decimal strings the brokerage payloads of this model carry, with the
\* value str::parse::<f64> gives for each; any other string fails to parse.
F64Literals == {"0", "7", "10", "-5", "-10", "150"}
F64Value(s) ==
    CASE s = "0" -> 0
      [] s = "7" -> 7
      [] s = "10" -> 10
      [] s = "-5" -> 0 - 5
      [] s = "-10" -> 0 - 10
      [] s = "150" -> 150

parse_f64(s) == IF s \in F64Literals THEN Ok(F64Value(s)) ELSE Err("invalid float literal")

\* Result::unwrap_or / Result::ok on a parse result
result_unwrap_or(r, d) == IF r.tag = "Ok" THEN r.val ELSE d
result_ok(r) == IF r.tag = "Ok" THEN Some(r.val) ELSE None

\* |s| s.parse::<f64>().unwrap_or(0.0)
parse_amount(s) == result_unwrap_or(parse_f64(s), 0)

\* DateTime::parse_from_rfc3339: one well-formed timestamp, as seconds
parse_from_rfc3339(s) ==
    IF s = "2024-01-02T03:04:05Z" THEN Ok(1704164645) ELSE Err("invalid timestamp")

\* f64::to_string for an integer-valued f64
f64_to_string(x) == ToString(x)

-----------------------------------------------------------------------------
(* Transport shim (http.rs)                                                *)

\* HttpResponse::is_success
is_success(response) == response.status >= 200 /\ response.status < 300

\* execute: what the host wrote back either decodes as an HttpResponse or is
\* replaced by the synthetic status-0 response.
execute(raw) ==
    IF raw.parsable
    THEN [status |-> raw.status, body |-> raw.body, error |-> raw.error]
    ELSE [status |-> 0,
          body |-> [text |-> "", shape |-> "empty", val |-> [x |-> 0],
                    len |-> 0, split200 |-> FALSE],
          error |-> Some("Failed to parse response: " \o raw.error.val)]

\* str::is_char_boundary(n) for n = min(len, 200): the end of the string is a
\* boundary; offset 200 of a longer string is one unless a multi-byte
\* character straddles it.
is_char_boundary_cut(body) == body.len <= 200 \/ ~body.split200

\* &self.body[..self.body.len().min(200)]
body_prefix(body) == IF body.len <= 200 THEN body.text ELSE body.text \o "<cut at 200>"

\* HttpResponse::json::<T>: strict decoding of the body into the target shape.
\* T is "account" (AlpacaAccount), "positions" (Vec<AlpacaPosition>) or
\* "order" (OrderResponse).  Every field of these structs is required unless
\* it is an Option; daytrade_count is Option<i32>, pattern_day_trader is
\* Option<bool>, side is a required String.
decodes_as(body, T) ==
    CASE T = "account" ->
            /\ body.shape = "account"
            /\ body.val.daytrade_count.t \in {"absent", "null", "int"}
            /\ body.val.pattern_day_trader.t \in {"absent", "null", "bool"}
      [] T = "positions" ->
            /\ body.shape = "positions"
            /\ \A i \in 1..Len(body.val.items) : body.val.items[i].side.t = "str"
      [] T = "order" -> body.shape = "order"

\* The error closure slices the body at byte min(len, 200); a slice that ends
\* inside a character panics.
json(response, T) ==
    IF decodes_as(response.body, T) THEN Ok(response.body.val)
    ELSE IF is_char_boundary_cut(response.body)
         THEN Err("JSON parse error: " \o T \o " - body: " \o body_prefix(response.body))
         ELSE Panic

-----------------------------------------------------------------------------
(* Brokerage client (alpaca.rs)                                            *)

LIVE_API_URL == "https://api.alpaca.markets"
PAPER_API_URL == "https://paper-api.alpaca.markets"

\* A faulty variant of AlpacaClient::new: the endpoint is not derived from the
\* flag
AlpacaClient_new_always_paper(api_key, api_secret, is_paper) ==
    [api_key |-> api_key, api_secret |-> api_secret,
     base_url |-> "https://paper-api.alpaca.markets", is_paper |-> is_paper]

AlpacaClient_new(api_key, api_secret, is_paper) ==
    [api_key |-> api_key,
     api_secret |-> api_secret,
     base_url |-> IF is_paper THEN PAPER_API_URL ELSE LIVE_API_URL,
     is_paper |-> is_paper]

default_headers(c) ==
    [Accept |-> "application/json",
     ContentType |-> "application/json",
     APCA_API_KEY_ID |-> c.api_key,
     APCA_API_SECRET_KEY |-> c.api_secret]

TIMEOUT_MS == 30000

\* The HttpRequest each wrapper hands to execute
HttpRequest(c, method, path, body) ==
    [method |-> method,
     url |-> c.base_url \o path,
     headers |-> default_headers(c),
     body |-> body,
     timeout_ms |-> TIMEOUT_MS]

\* format!("API error {}: {}", status, error.unwrap_or(body))
api_error(response) ==
    "API error " \o ToString(response.status) \o ": "
        \o unwrap_or(response.error, response.body.text)

\* api_get / api_post: the Result for the host's reply `raw`
api_decode(raw, T) ==
    LET response == execute(raw)
    IN  IF ~is_success(response) THEN Err(api_error(response))
        ELSE json(response, T)

api_get(raw, T) == api_decode(raw, T)
api_post(raw, T) == api_decode(raw, T)

\* api_delete: the body of a 2xx reply is not looked at
api_delete(raw) ==
    LET response == execute(raw)
    IN  IF ~is_success(response) THEN Err(api_error(response))
        ELSE Ok("unit")

\* One AlpacaPosition to one Position (the closure of get_positions)
map_position(p) ==
    LET qty == result_unwrap_or(parse_f64(p.qty), 0)
        multiplier == IF p.side.s = "short" THEN 0 - 1 ELSE 1
    IN  [symbol_id |-> p.symbol,
         quantity |-> qty * multiplier,
         average_price |-> result_unwrap_or(parse_f64(p.avg_entry_price), 0),
         current_price |-> result_unwrap_or(parse_f64(p.current_price), 0),
         unrealized_pnl |-> result_unwrap_or(parse_f64(p.unrealized_pl), 0),
         unrealized_pnl_percent |->
             result_unwrap_or(parse_f64(p.unrealized_plpc), 0) * 100]

\* AlpacaClient::get_positions; `raw` is the host's reply to the one GET
AlpacaClient_get_positions(c, raw) ==
    LET req == HttpRequest(c, "GET", "/v2/positions", None)
        r == api_get(raw, "positions")
    IN  [exchanges |-> <<req>>,
         res |-> IF r.tag = "Ok"
                 THEN Ok([i \in 1..Len(r.val.items) |-> map_position(r.val.items[i])])
                 ELSE r]

\* AlpacaClient::get_account; rawAcct answers GET /v2/account and rawPos
\* answers the GET /v2/positions that follows a decoded account
AlpacaClient_get_account(c, rawAcct, rawPos, now) ==
    LET req == HttpRequest(c, "GET", "/v2/account", None)
        r == api_get(rawAcct, "account")
        p == AlpacaClient_get_positions(c, rawPos)
        account == r.val
    IN  IF r.tag # "Ok" THEN [exchanges |-> <<req>>, res |-> r]
        ELSE IF p.res.tag = "Panic"
        THEN [exchanges |-> <<req>> \o p.exchanges, res |-> Panic]
        ELSE [exchanges |-> <<req>> \o p.exchanges,
              res |-> Ok(
                [id |-> account.account_number,
                 name |-> "Alpaca " \o (IF c.is_paper THEN "Paper" ELSE "Live"),
                 broker_id |-> "broker-alpaca",
                 is_paper |-> c.is_paper,
                 balance |-> [currency |-> account.currency,
                              total_equity |-> parse_amount(account.equity),
                              available_cash |-> parse_amount(account.cash),
                              buying_power |-> parse_amount(account.buying_power),
                              locked_cash |-> 0],
                 positions |-> IF p.res.tag = "Ok" THEN p.res.val ELSE <<>>,
                 updated_at |-> now,
                 extensions |-> Some(
                    [account_id |-> account.id,
                     status |-> account.status,
                     pattern_day_trader |->
                        IF account.pattern_day_trader.t = "bool"
                        THEN Some(account.pattern_day_trader.b) ELSE None,
                     daytrade_count |->
                        IF account.daytrade_count.t = "int"
                        THEN Some(account.daytrade_count.n) ELSE None])])]

\* AlpacaClient::list_accounts
AlpacaClient_list_accounts(c, rawAcct, rawPos, now) ==
    LET a == AlpacaClient_get_account(c, rawAcct, rawPos, now)
    IN  [exchanges |-> a.exchanges,
         res |-> IF a.res.tag = "Ok" THEN Ok(<<a.res.val>>) ELSE a.res]

\* format!("{:016x}", r): r as 16 lower-case hexadecimal digits
HexDigit(d) == SubSeq("0123456789abcdef", d + 1, d + 1)
RECURSIVE hex_pad(_, _)
hex_pad(n, width) ==
    IF width = 0 THEN "" ELSE hex_pad(n \div 16, width - 1) \o HexDigit(n % 16)

\* format!("KL{:016x}", rand::random::<u64>())
client_order_id_for(r) == "KL" \o hex_pad(r, 16)

side_token(side) == IF side = "Buy" THEN "buy" ELSE "sell"

order_type_token(order_type) ==
    CASE order_type = "Market" -> "market"
      [] order_type = "Limit" -> "limit"
      [] order_type = "Stop" -> "stop"
      [] order_type = "StopLimit" -> "stop_limit"

\* Option<f64>::map(|p| p.to_string())
opt_to_string(o) == IF o.tag = "Some" THEN Some(f64_to_string(o.val)) ELSE None

\* CreateOrderRequest as serialized into the POST body
CreateOrderRequest(order, token) ==
    [symbol |-> order.symbol_id,
     qty |-> f64_to_string(order.quantity),
     side |-> side_token(order.side),
     type |-> order_type_token(order.order_type),
     time_in_force |-> "day",
     limit_price |-> opt_to_string(order.limit_price),
     stop_price |-> opt_to_string(order.stop_price),
     client_order_id |-> Some(token)]

\* The brokerage status string to OrderStatus
map_status(status) ==
    CASE status \in {"new", "accepted", "pending_new"} -> "Submitted"
      [] status = "partially_filled" -> "PartiallyFilled"
      [] status = "filled" -> "Filled"
      [] status \in {"canceled", "expired", "rejected"} -> "Canceled"
      [] OTHER -> "Submitted"

\* The client_order_id written into the Order's extensions
recorded_client_order_id(resp, token) == resp.client_order_id

\* Option<String>::and_then(|p| p.parse().ok())
parse_opt_price(o) == IF o.tag = "Some" THEN result_ok(parse_f64(o.val)) ELSE None

\* The Order built from a decoded OrderResponse
order_from_response(order, resp, token, now) ==
    [id |-> resp.id,
     request |-> order,
     status |-> map_status(resp.status),
     created_at |-> result_unwrap_or(parse_from_rfc3339(resp.created_at), now),
     updated_at |-> result_unwrap_or(parse_from_rfc3339(resp.updated_at), now),
     filled_quantity |-> result_unwrap_or(parse_f64(resp.filled_qty), 0),
     average_filled_price |-> parse_opt_price(resp.filled_avg_price),
     extensions |-> Some([client_order_id |-> recorded_client_order_id(resp, token),
                          alpaca_status |-> resp.status]),
     persona_id |-> order.persona_id]

\* AlpacaClient::submit_order; r is the random u64, raw the reply to the POST
AlpacaClient_submit_order(c, order, r, raw, now) ==
    LET token == client_order_id_for(r)
        req == HttpRequest(c, "POST", "/v2/orders", Some(CreateOrderRequest(order, token)))
        res == api_post(raw, "order")
    IN  [exchanges |-> <<req>>,
         res |-> IF res.tag = "Ok"
                 THEN Ok(order_from_response(order, res.val, token, now))
                 ELSE res]

\* AlpacaClient::cancel_order
AlpacaClient_cancel_order(c, order_id, raw) ==
    [exchanges |-> <<HttpRequest(c, "DELETE", "/v2/orders/" \o order_id, None)>>,
     res |-> api_delete(raw)]

-----------------------------------------------------------------------------
(* Dispatcher helpers (lib.rs)                                             *)

create_error_account(error, now) ==
    [id |-> "error",
     name |-> "Error: " \o error,
     broker_id |-> "broker-alpaca",
     is_paper |-> TRUE,
     balance |-> [currency |-> "USD", total_equity |-> 0, available_cash |-> 0,
                  buying_power |-> 0, locked_cash |-> 0],
     positions |-> <<>>,
     updated_at |-> now,
     extensions |-> None]

create_error_order(req, error, now) ==
    [id |-> "error_" \o ToString(now),
     request |-> req.order,
     status |-> "Rejected",
     created_at |-> now,
     updated_at |-> now,
     average_filled_price |-> None,
     filled_quantity |-> 0,
     extensions |-> Some([error |-> error]),
     persona_id |-> req.order.persona_id]

-----------------------------------------------------------------------------
(* Entry points (lib.rs).  Each operator is the body of the entry point run *)
(* under the STATE lock on the state st = [client, orders]; it yields the   *)
(* state it leaves, the exchanges it issued and the response it returns.    *)
(* A call that panics returns no response: response is Panic.               *)

Outcome(st, exchanges, response) ==
    [client |-> st.client, orders |-> st.orders,
     exchanges |-> exchanges, response |-> response]

\* HashMap::insert
map_insert(m, k, v) == [x \in DOMAIN m \cup {k} |-> IF x = k THEN v ELSE m[x]]

\* A faulty variant of initialize: the strings are not checked for emptiness
initialize_accepts_empty(st, cfg) ==
    LET api_key == as_str(cfg.api_key)
        api_secret == as_str(cfg.api_secret)
        is_paper == unwrap_or(as_bool(cfg.is_paper), TRUE)
    IN  IF is_some(api_key) /\ is_some(api_secret)
        THEN Outcome([st EXCEPT !.client =
                          Some(AlpacaClient_new(api_key.val, api_secret.val, is_paper))],
                     <<>>,
                     [success |-> TRUE,
                      message |-> "Alpaca plugin initialized ("
                                  \o (IF is_paper THEN "paper" ELSE "live") \o ")"])
        ELSE Outcome(st, <<>>,
                     [success |-> FALSE,
                      error |-> "Missing required configuration: api_key and api_secret",
                      requires_auth |-> TRUE])

\* A faulty variant of initialize: a refused configuration clears the slot
initialize_clears_on_refusal(st, cfg) ==
    LET api_key == as_str(cfg.api_key)
        api_secret == as_str(cfg.api_secret)
        is_paper == unwrap_or(as_bool(cfg.is_paper), TRUE)
    IN  IF /\ is_some(api_key) /\ is_some(api_secret)
           /\ api_key.val # "" /\ api_secret.val # ""
        THEN Outcome([st EXCEPT !.client =
                          Some(AlpacaClient_new(api_key.val, api_secret.val, is_paper))],
                     <<>>,
                     [success |-> TRUE,
                      message |-> "Alpaca plugin initialized ("
                                  \o (IF is_paper THEN "paper" ELSE "live") \o ")"])
        ELSE Outcome([st EXCEPT !.client = None], <<>>,
                     [success |-> FALSE,
                      error |-> "Missing required configuration: api_key and api_secret",
                      requires_auth |-> TRUE])

initialize(st, cfg) ==
    LET api_key == as_str(cfg.api_key)
        api_secret == as_str(cfg.api_secret)
        is_paper == unwrap_or(as_bool(cfg.is_paper), TRUE)
    IN  IF /\ is_some(api_key) /\ is_some(api_secret)
           /\ api_key.val # "" /\ api_secret.val # ""
        THEN Outcome([st EXCEPT !.client =
                          Some(AlpacaClient_new(api_key.val, api_secret.val, is_paper))],
                     <<>>,
                     [success |-> TRUE,
                      message |-> "Alpaca plugin initialized ("
                                  \o (IF is_paper THEN "paper" ELSE "live") \o ")"])
        ELSE Outcome(st, <<>>,
                     [success |-> FALSE,
                      error |-> "Missing required configuration: api_key and api_secret",
                      requires_auth |-> TRUE])

get_accounts(st, rawAcct, rawPos, now) ==
    IF st.client.tag = "None"
    THEN Outcome(st, <<>>,
                 [accounts |-> <<create_error_account(
                     "Plugin not initialized. Provide api_key and api_secret.", now)>>])
    ELSE LET r == AlpacaClient_list_accounts(st.client.val, rawAcct, rawPos, now)
         IN  CASE r.res.tag = "Ok" -> Outcome(st, r.exchanges, [accounts |-> r.res.val])
               [] r.res.tag = "Err" ->
                    Outcome(st, r.exchanges,
                            [accounts |-> <<create_error_account(r.res.err, now)>>])
               [] r.res.tag = "Panic" -> Outcome(st, r.exchanges, Panic)

\* A faulty variant of get_positions: the client slot is not checked and a
\* default paper client without credentials is used
get_positions_unguarded(st, raw) ==
    LET c == IF st.client.tag = "None" THEN AlpacaClient_new("", "", TRUE) ELSE st.client.val
        r == AlpacaClient_get_positions(c, raw)
    IN  CASE r.res.tag = "Ok" -> Outcome(st, r.exchanges, [positions |-> r.res.val])
          [] r.res.tag = "Err" -> Outcome(st, r.exchanges, [positions |-> <<>>])
          [] r.res.tag = "Panic" -> Outcome(st, r.exchanges, Panic)

get_positions(st, raw) ==
    IF st.client.tag = "None"
    THEN Outcome(st, <<>>, [positions |-> <<>>])
    ELSE LET r == AlpacaClient_get_positions(st.client.val, raw)
         IN  CASE r.res.tag = "Ok" -> Outcome(st, r.exchanges, [positions |-> r.res.val])
               [] r.res.tag = "Err" -> Outcome(st, r.exchanges, [positions |-> <<>>])
               [] r.res.tag = "Panic" -> Outcome(st, r.exchanges, Panic)

submit_order(st, req, rnd, raw, now) ==
    IF st.client.tag = "None"
    THEN Outcome(st, <<>>, [order |-> create_error_order(req, "Plugin not initialized", now)])
    ELSE LET r == AlpacaClient_submit_order(st.client.val, req.order, rnd, raw, now)
             order == IF r.res.val.persona_id = ""
                      THEN [r.res.val EXCEPT !.persona_id = req.order.persona_id]
                      ELSE r.res.val
         IN  CASE r.res.tag = "Ok" ->
                    Outcome([st EXCEPT !.orders = map_insert(st.orders, order.id, order)],
                            r.exchanges, [order |-> order])
               [] r.res.tag = "Err" ->
                    Outcome(st, r.exchanges,
                            [order |-> create_error_order(req, r.res.err, now)])
               [] r.res.tag = "Panic" -> Outcome(st, r.exchanges, Panic)

\* A faulty variant of cancel_order: a successful cancel evicts the cached
\* order
cancel_order_evicts(st, req, raw) ==
    IF st.client.tag = "None"
    THEN Outcome(st, <<>>, [success |-> FALSE, error |-> "Plugin not initialized"])
    ELSE LET r == AlpacaClient_cancel_order(st.client.val, req.order_id, raw)
         IN  IF r.res.tag = "Ok"
             THEN Outcome([st EXCEPT !.orders =
                               [x \in DOMAIN st.orders \ {req.order_id} |-> st.orders[x]]],
                          r.exchanges, [success |-> TRUE, order_id |-> req.order_id])
             ELSE Outcome(st, r.exchanges, [success |-> FALSE, error |-> r.res.err])

cancel_order(st, req, raw) ==
    IF st.client.tag = "None"
    THEN Outcome(st, <<>>, [success |-> FALSE, error |-> "Plugin not initialized"])
    ELSE LET r == AlpacaClient_cancel_order(st.client.val, req.order_id, raw)
         IN  IF r.res.tag = "Ok"
             THEN Outcome(st, r.exchanges, [success |-> TRUE, order_id |-> req.order_id])
             ELSE Outcome(st, r.exchanges, [success |-> FALSE, error |-> r.res.err])

-----------------------------------------------------------------------------
(* The environment: what the host passes in and what its http_request      *)
(* import answers.                                                         *)

Body(text, shape, val, len, split200) ==
    [text |-> text, shape |-> shape, val |-> val, len |-> len, split200 |-> split200]

EmptyBody == Body("", "empty", [x |-> 0], 0, FALSE)
\* an upstream error document, e.g. {"message": "forbidden"}
MessageBody == Body("{\"message\":\"forbidden\"}", "message", [x |-> 0], 23, FALSE)
\* a short body that is no JSON at all
JunkBody == Body("<html>bad gateway</html>", "junk", [x |-> 0], 24, FALSE)
\* a body longer than 200 bytes with a multi-byte character across offset 200
SplitBody == Body("<html>...long non-ASCII page...</html>", "junk", [x |-> 0], 300, TRUE)

\* an account document is longer than 200 bytes (all ASCII)
AccountBody(a) == Body("{account}", "account", a, 220, FALSE)
PositionsBody(items) == Body("[positions]", "positions", [items |-> items], 150, FALSE)
\* a positions document of more than 200 bytes, non-ASCII across offset 200
LongPositionsBody(items) == Body("[positions...]", "positions", [items |-> items], 400, TRUE)
OrderBody(o) == Body("{order}", "order", o, 180, FALSE)

\* The host's answer to one http_request call: bytes that decode as an
\* HttpResponse, or bytes that do not.
Reply(status, body, error) ==
    [parsable |-> TRUE, status |-> status, body |-> body, error |-> error]
Garbage ==
    [parsable |-> FALSE, status |-> 0, body |-> EmptyBody,
     error |-> Some("expected value at line 1 column 1")]

FailedReplies ==
    {Garbage,
     Reply(0, EmptyBody, Some("connection refused")),
     Reply(403, MessageBody, None)}

AlpacaAccount(cash, equity, buying_power, daytrade_count, pattern_day_trader) ==
    [id |-> "acc-uuid-1", account_number |-> "PA123", status |-> "ACTIVE",
     currency |-> "USD", cash |-> cash, portfolio_value |-> equity,
     buying_power |-> buying_power, equity |-> equity, last_equity |-> equity,
     daytrade_count |-> daytrade_count, pattern_day_trader |-> pattern_day_trader]

AlpacaPosition(qty, side, avg_entry_price) ==
    [symbol |-> "AAPL", qty |-> qty, avg_entry_price |-> avg_entry_price,
     current_price |-> "150", market_value |-> "150", unrealized_pl |-> "-5",
     unrealized_plpc |-> "0", side |-> side]

OrderResponse(id, client_order_id, status, filled_qty, filled_avg_price, created_at) ==
    [id |-> id, client_order_id |-> client_order_id, status |-> status,
     symbol |-> "AAPL", qty |-> "10", filled_qty |-> filled_qty,
     filled_avg_price |-> filled_avg_price, created_at |-> created_at,
     updated_at |-> "2024-01-02T03:04:05Z"]

OrderRequest(side, order_type, limit_price, persona_id) ==
    [symbol_id |-> "AAPL", quantity |-> 10, side |-> side, order_type |-> order_type,
     limit_price |-> limit_price, stop_price |-> None, reference_price |-> None,
     time_in_force |-> None, extensions |-> None, persona_id |-> persona_id]

\* largest value of Utc::now() the model draws (a clock reading)
MaxClock == 1
Clock == 1..MaxClock

\* --- inputs of the entry-point specification ---

Configs ==
    [api_key : {JAbsent, JStr(""), JStr("AK1"), JStr("AK2"), JInt(5)},
     api_secret : {JAbsent, JStr(""), JStr("S1"), JStr("S2")},
     is_paper : {JAbsent, JBool(TRUE), JBool(FALSE)}]

AccountReplies ==
    FailedReplies \cup
    {Reply(200, AccountBody(AlpacaAccount("10", "150", "150", JInt(0), JBool(FALSE))), None),
     Reply(200, AccountBody(AlpacaAccount("n/a", "150", "", JAbsent, JNull)), None),
     Reply(200, AccountBody(AlpacaAccount("10", "150", "150", JStr("abc"), JNull)), None),
     Reply(200, JunkBody, None),
     Reply(200, SplitBody, None)}

PositionsReplies ==
    FailedReplies \cup
    {Reply(200, PositionsBody(<<>>), None),
     Reply(200, PositionsBody(<<AlpacaPosition("10", JStr("short"), "150")>>), None),
     Reply(200, PositionsBody(<<AlpacaPosition("10", JAbsent, "150")>>), None),
     Reply(200, JunkBody, None),
     Reply(200, SplitBody, None)}

SubmitRequests ==
    {[order |-> OrderRequest("Buy", "Market", None, "persona-1")],
     [order |-> OrderRequest("Sell", "Limit", Some(150), "")]}

\* values of rand::random::<u64>() the model draws
RandomU64 == {10, 4660}

\* What the brokerage may answer to a POST carrying the token `token`
OrderReplies(token) ==
    FailedReplies \cup
    {Reply(200, OrderBody(OrderResponse("o1", token, "new", "0", None,
                                        "2024-01-02T03:04:05Z")), None),
     Reply(201, OrderBody(OrderResponse("o2", "broker-assigned", "filled", "abc",
                                        Some("abc"), "yesterday")), None),
     Reply(200, JunkBody, None),
     Reply(200, SplitBody, None)}

CancelRequests == {[order_id |-> "o1"], [order_id |-> "o9"]}

CancelReplies ==
    FailedReplies \cup {Reply(500, JunkBody, Some("upstream unavailable")),
                        Reply(204, EmptyBody, None), Reply(200, SplitBody, None)}

-----------------------------------------------------------------------------
(* Specification of the entry points, one call at a time                   *)

State == [client |-> client, orders |-> orders]

NoCall ==
    [op |-> "none", req |-> None, exchanges |-> <<>>, replies |-> <<>>, response |-> None]

\* number of host threads that may call entry points at once
NumThreads == 2
Threads == 1..NumThreads

IdleThreads ==
    /\ pc = [t \in Threads |-> "idle"]
    /\ lockHolder = 0
    /\ poisoned = FALSE
    /\ treq = [t \in Threads |-> None]
    /\ snap = [t \in Threads |-> None]
    /\ tout = [t \in Threads |-> None]

Init ==
    /\ client = None
    /\ orders = [x \in {} |-> None]
    /\ call = NoCall
    /\ prev = [client |-> None, orders |-> [x \in {} |-> None]]
    /\ lastInit = None
    /\ mapIn = None
    /\ mapOut = None
    /\ IdleThreads

\* How the build treats a panic: it unwinds the stack, dropping the guard on
\* the way (which releases and poisons the lock), or it stops on the spot
\* (panic = abort), the guard never being dropped.
Builds == {"unwind", "abort"}

\* STATE's lock after thread t panicked while holding the guard
lock_after_panic(t, build) ==
    [lockHolder |-> IF build = "abort" THEN t ELSE 0,
     poisoned |-> build = "unwind"]

\* The entry points are extern "C" functions, which a panic cannot leave: a
\* panic inside one ends the process, on either build.
Aborted == [t \in Threads |-> "aborted"]
Alive == \A t \in Threads : pc[t] # "aborted"

\* the thread from which the host makes its calls when it calls one at a time
HostThread == 1

\* The call `op` with request `req` ran to outcome `o`; `raws` are the answers
\* the host had ready, of which the call consumed one per exchange it issued.
\* A call holds the STATE lock for its whole body, so it is one step here.  A
\* call that returns releases the lock.  A call that panics leaves client and
\* orders as they were, leaves the lock poisoned or held according to the
\* build, and ends the process: no later call is made.
Finish(op, req, o, raws) ==
    /\ Alive
    /\ client' = o.client
    /\ orders' = o.orders
    /\ prev' = State
    /\ call' = [op |-> op, req |-> req, exchanges |-> o.exchanges,
                 replies |-> SubSeq(raws, 1, Len(o.exchanges)), response |-> o.response]
    /\ IF o.response = Panic
       THEN \E build \in Builds :
                /\ lockHolder' = lock_after_panic(HostThread, build).lockHolder
                /\ poisoned' = lock_after_panic(HostThread, build).poisoned
                /\ pc' = Aborted
       ELSE UNCHANGED <<lockHolder, poisoned, pc>>

\* what a configuration asks for, read off the request itself
requested(cfg) ==
    [api_key |-> cfg.api_key.s, api_secret |-> cfg.api_secret.s,
     is_paper |-> ~(cfg.is_paper = JBool(FALSE))]

Initialize ==
    \E cfg \in Configs :
        LET o == initialize(State, cfg)
        IN  /\ Finish("initialize", cfg, o, <<>>)
            /\ lastInit' = IF o.response.success THEN Some(requested(cfg)) ELSE lastInit
            /\ UNCHANGED <<mapIn, mapOut, treq, snap, tout>>

\* the host is asked for a second answer only after a decoded account
SecondReplies(rawAcct) ==
    IF api_get(rawAcct, "account").tag = "Ok" THEN PositionsReplies ELSE {Garbage}

GetAccounts ==
    \E rawAcct \in AccountReplies, now \in Clock : \E rawPos \in SecondReplies(rawAcct) :
        /\ Finish("get_accounts", None, get_accounts(State, rawAcct, rawPos, now),
                  <<rawAcct, rawPos>>)
        /\ UNCHANGED <<lastInit, mapIn, mapOut, treq, snap, tout>>

GetPositions ==
    \E raw \in PositionsReplies :
        /\ Finish("get_positions", None, get_positions(State, raw), <<raw>>)
        /\ UNCHANGED <<lastInit, mapIn, mapOut, treq, snap, tout>>

SubmitOrder ==
    \E req \in SubmitRequests, rnd \in RandomU64, now \in Clock :
        \E raw \in OrderReplies(client_order_id_for(rnd)) :
            /\ Finish("submit_order", req, submit_order(State, req, rnd, raw, now),
                      <<raw>>)
            /\ UNCHANGED <<lastInit, mapIn, mapOut, treq, snap, tout>>

CancelOrder ==
    \E req \in CancelRequests, raw \in CancelReplies :
        /\ Finish("cancel_order", req, cancel_order(State, req, raw), <<raw>>)
        /\ UNCHANGED <<lastInit, mapIn, mapOut, treq, snap, tout>>

Next == Initialize \/ GetAccounts \/ GetPositions \/ SubmitOrder \/ CancelOrder

Spec == Init /\ [][Next]_vars

-----------------------------------------------------------------------------
(* Properties of the entry points                                          *)

Ready(c) == c.tag = "Some"
returned(r) == r # Panic
ServingOps == {"get_accounts", "get_positions", "submit_order", "cancel_order"}
MissingOrEmpty(v) == v = JAbsent \/ v = JStr("")
PresentNonEmpty(v) == v.t = "str" /\ v.s # ""

\* C1: an initialize call with api_key and api_secret both present and
\* non-empty leaves the slot Ready and answers success:true; one with a
\* missing or empty key or secret, made while the slot is Uninitialized,
\* leaves it Uninitialized and answers success:false, requires_auth:true.
C1_InitializeValidates ==
    call.op = "initialize" =>
        /\ (PresentNonEmpty(call.req.api_key) /\ PresentNonEmpty(call.req.api_secret))
              => (Ready(client) /\ call.response.success = TRUE)
        /\ ((MissingOrEmpty(call.req.api_key) \/ MissingOrEmpty(call.req.api_secret))
                /\ ~Ready(prev.client))
              => /\ ~Ready(client)
                 /\ call.response.success = FALSE
                 /\ "requires_auth" \in DOMAIN call.response
                 /\ call.response.requires_auth = TRUE

\* a valid key with an empty secret was refused while Uninitialized
C1_Witness ==
    /\ call.op = "initialize"
    /\ ~Ready(prev.client)
    /\ PresentNonEmpty(call.req.api_key)
    /\ call.req.api_secret = JStr("")
    /\ call.response.success = FALSE

EndpointOf(is_paper) ==
    IF is_paper THEN "https://paper-api.alpaca.markets" ELSE "https://api.alpaca.markets"

Paths == {"/v2/account", "/v2/positions", "/v2/orders"}
            \cup {"/v2/orders/" \o r.order_id : r \in CancelRequests}

\* C2: every exchange issued by get_accounts, get_positions, submit_order or
\* cancel_order targets the endpoint and carries the key and secret of the
\* most recent successful initialize (absent is_paper selecting paper); a
\* later successful initialize replaces the earlier client entirely.
C2_ExchangesUseLastInitialize ==
    /\ Ready(client) =>
          /\ Ready(lastInit)
          /\ client.val.api_key = lastInit.val.api_key
          /\ client.val.api_secret = lastInit.val.api_secret
          /\ client.val.is_paper = lastInit.val.is_paper
    /\ call.op \in ServingOps =>
          \A i \in 1..Len(call.exchanges) :
              /\ Ready(lastInit)
              /\ \E path \in Paths :
                    call.exchanges[i].url = EndpointOf(lastInit.val.is_paper) \o path
              /\ call.exchanges[i].headers.APCA_API_KEY_ID = lastInit.val.api_key
              /\ call.exchanges[i].headers.APCA_API_SECRET_KEY = lastInit.val.api_secret

\* an order was posted to the live endpoint with the second key pair while an
\* order placed earlier is still cached
C2_Witness ==
    /\ call.op = "submit_order"
    /\ Len(call.exchanges) = 1
    /\ call.exchanges[1].url = "https://api.alpaca.markets/v2/orders"
    /\ call.exchanges[1].headers.APCA_API_KEY_ID = "AK2"
    /\ call.exchanges[1].headers.APCA_API_SECRET_KEY = "S2"
    /\ DOMAIN prev.orders # {}

\* C3: while the slot is Uninitialized every serving call returns its
\* placeholder without any exchange and without changing the adapter state:
\* one error-flagged account, an empty position list, a Rejected order,
\* success:false.
C3_UninitializedPlaceholders ==
    (call.op \in ServingOps /\ ~Ready(prev.client)) =>
        /\ call.exchanges = <<>>
        /\ client = prev.client
        /\ orders = prev.orders
        /\ returned(call.response)
        /\ call.op = "get_accounts" =>
              /\ Len(call.response.accounts) = 1
              /\ call.response.accounts[1].id = "error"
              /\ call.response.accounts[1].name =
                    "Error: Plugin not initialized. Provide api_key and api_secret."
        /\ call.op = "get_positions" => call.response.positions = <<>>
        /\ call.op = "submit_order" =>
              /\ call.response.order.status = "Rejected"
              /\ call.response.order.extensions = Some([error |-> "Plugin not initialized"])
        /\ call.op = "cancel_order" => call.response.success = FALSE

\* an order was submitted before any initialize succeeded and was rejected
C3_Witness ==
    /\ call.op = "submit_order"
    /\ ~Ready(prev.client)
    /\ call.response.order.status = "Rejected"

\* the reply to a POST that succeeded as an exchange and decoded
SubmitSucceeded ==
    /\ call.op = "submit_order"
    /\ Len(call.replies) = 1
    /\ call.replies[1].parsable
    /\ is_success(execute(call.replies[1]))
    /\ call.replies[1].body.shape = "order"

\* C5: the order cache never loses an id, and only a submit_order whose
\* exchange succeeded changes it, storing the returned order under the id
\* the brokerage assigned; every other call leaves it unchanged.
C5_CacheOnlyGrowsBySubmit ==
    /\ DOMAIN prev.orders \subseteq DOMAIN orders
    /\ SubmitSucceeded =>
          /\ returned(call.response)
          /\ LET id == call.replies[1].body.val.id
             IN  /\ id \in DOMAIN orders
                 /\ orders[id] = call.response.order
                 /\ \A x \in DOMAIN orders \ {id} :
                       x \in DOMAIN prev.orders /\ orders[x] = prev.orders[x]
    /\ ~SubmitSucceeded => orders = prev.orders

\* a cancel succeeded for an order id that is cached, and it is still cached
C5_Witness ==
    /\ call.op = "cancel_order"
    /\ call.response.success = TRUE
    /\ call.req.order_id \in DOMAIN prev.orders
    /\ call.req.order_id \in DOMAIN orders

\* the exchange answered by `raw` failed: a transport error reported as
\* status 0, a non-2xx status, or (for a call that decodes the body into T) a
\* body that does not decode
DecodeTarget(op) ==
    CASE op = "get_accounts" -> "account"
      [] op = "get_positions" -> "positions"
      [] op = "submit_order" -> "order"
      [] op = "cancel_order" -> "unit"

ExchangeFailed(raw, T) ==
    LET response == execute(raw)
    IN  \/ response.status = 0
        \/ ~is_success(response)
        \/ (T # "unit" /\ ~decodes_as(response.body, T))

\* C4: when the slot is Ready and the call's exchange fails, the entry point
\* still returns an error-shaped response: one account named "Error: ...", an
\* empty position list, a Rejected order whose error extension comes with
\* the caller's OrderRequest and persona id, success:false with an error
\* text.  (The exchange of get_accounts is taken to be the account exchange,
\* and an undecodable body to matter only where the body is decoded.)
C4_FailedExchangeGivesErrorShape ==
    (/\ call.op \in ServingOps
     /\ Ready(prev.client)
     /\ Len(call.replies) >= 1
     /\ ExchangeFailed(call.replies[1], DecodeTarget(call.op)))
    => /\ returned(call.response)
       /\ call.op = "get_accounts" =>
             /\ Len(call.response.accounts) = 1
             /\ call.response.accounts[1].id = "error"
             /\ SubSeq(call.response.accounts[1].name, 1, 7) = "Error: "
       /\ call.op = "get_positions" => call.response.positions = <<>>
       /\ call.op = "submit_order" =>
             /\ call.response.order.status = "Rejected"
             /\ "error" \in DOMAIN call.response.order.extensions.val
             /\ call.response.order.request = call.req.order
             /\ call.response.order.persona_id = call.req.order.persona_id
       /\ call.op = "cancel_order" =>
             /\ call.response.success = FALSE
             /\ "error" \in DOMAIN call.response

\* C7: list_accounts returns a sequence of length exactly 1 when the client
\* is Ready, whatever the outcome of the account and positions exchanges
\* (read at the entry point, where a failed account exchange is answered by
\* the one error account).
C7_ExactlyOneAccount ==
    (call.op = "get_accounts" /\ Ready(prev.client)) =>
        /\ returned(call.response)
        /\ Len(call.response.accounts) = 1

\* C10: for every successful submit_order the client_order_id in the
\* extensions of the returned and of the cached order is the token this call
\* generated and sent in its POST body, whatever the response carries.
C10_RecordsGeneratedToken ==
    SubmitSucceeded =>
        LET sent == call.exchanges[1].body.val.client_order_id.val
            id == call.replies[1].body.val.id
        IN  /\ call.response.order.extensions.val.client_order_id = sent
            /\ orders[id].extensions.val.client_order_id = sent

\* the i-th exchange of the last call is `method` on `path` of the client the
\* call started with
IsExchange(i, method, path) ==
    /\ call.exchanges[i].method = method
    /\ call.exchanges[i].url = prev.client.val.base_url \o path

\* C11: every call issues at most two exchanges, one after the other, and
\* then returns: initialize issues none; get_accounts when Ready issues the
\* account exchange and, only if that one succeeded, the positions exchange;
\* get_positions, submit_order and cancel_order issue exactly one when Ready;
\* no exchange is issued twice within a call, so a submit_order call sends
\* at most one POST.
C11_AtMostTwoExchangesNoRetry ==
    /\ returned(call.response)
    /\ Len(call.exchanges) <= 2
    /\ Len(call.replies) = Len(call.exchanges)
    /\ \A i, j \in 1..Len(call.exchanges) :
          (call.exchanges[i].method = call.exchanges[j].method
              /\ call.exchanges[i].url = call.exchanges[j].url) => i = j
    /\ call.op = "initialize" => call.exchanges = <<>>
    /\ (call.op = "get_accounts" /\ Ready(prev.client)) =>
          /\ Len(call.exchanges) >= 1
          /\ IsExchange(1, "GET", "/v2/account")
          /\ (Len(call.exchanges) = 2) <=> ~ExchangeFailed(call.replies[1], "account")
          /\ Len(call.exchanges) = 2 => IsExchange(2, "GET", "/v2/positions")
    /\ (call.op = "get_positions" /\ Ready(prev.client)) =>
          (Len(call.exchanges) = 1 /\ IsExchange(1, "GET", "/v2/positions"))
    /\ (call.op = "submit_order" /\ Ready(prev.client)) =>
          (Len(call.exchanges) = 1 /\ IsExchange(1, "POST", "/v2/orders"))
    /\ (call.op = "cancel_order" /\ Ready(prev.client)) =>
          (Len(call.exchanges) = 1
              /\ IsExchange(1, "DELETE", "/v2/orders/" \o call.req.order_id))

\* C13: once the slot is Ready it stays Ready: an initialize call with a
\* missing or empty api_key or api_secret, made while the slot is Ready,
\* answers success:false with requires_auth:true and leaves the client (key,
\* secret, mode) and the order cache as they were, so that the credentials
\* in use are still those of the last accepted configuration.
C13_ReadyIsNeverLost ==
    /\ Ready(prev.client) => Ready(client)
    /\ (/\ call.op = "initialize"
        /\ Ready(prev.client)
        /\ (MissingOrEmpty(call.req.api_key) \/ MissingOrEmpty(call.req.api_secret))) =>
          /\ call.response.success = FALSE
          /\ "requires_auth" \in DOMAIN call.response
          /\ call.response.requires_auth = TRUE
          /\ client = prev.client
          /\ orders = prev.orders
          /\ Ready(lastInit)
          /\ client.val.api_key = lastInit.val.api_key
          /\ client.val.api_secret = lastInit.val.api_secret
          /\ client.val.is_paper = lastInit.val.is_paper

\* a live client with a cached order was offered a configuration without a
\* secret, and both are still there
C13_Witness ==
    /\ call.op = "initialize"
    /\ call.req.api_secret = JAbsent
    /\ call.response.success = FALSE
    /\ Ready(prev.client)
    /\ client = Some(AlpacaClient_new("AK2", "S2", FALSE))
    /\ DOMAIN orders # {}

-----------------------------------------------------------------------------
(* Specification of the response mappings: one brokerage payload is handed *)
(* to a client operation of a fixed Ready client.                          *)

\* longest positions array the mapping specification draws
MaxPositions == 1

MapClient == AlpacaClient_new("AK1", "S1", TRUE)

PositionEntries ==
    {AlpacaPosition(qty, side, avg) :
        qty \in {"10", "0", "-10", "abc"},
        side \in {JStr("short"), JStr("long"), JAbsent},
        avg \in {"150", ""}}

RECURSIVE SeqsUpTo(_, _)
SeqsUpTo(S, n) ==
    IF n = 0 THEN {<<>>}
    ELSE LET shorter == SeqsUpTo(S, n - 1)
         IN  shorter \cup {Append(q, x) : q \in {r \in shorter : Len(r) = n - 1}, x \in S}

AccountPayloads ==
    {AlpacaAccount(cash, equity, bp, dtc, pdt) :
        cash \in {"10", "n/a"}, equity \in {"150", "abc"}, bp \in {"150", ""},
        dtc \in {JAbsent, JInt(3), JStr("abc")}, pdt \in {JNull, JBool(TRUE)}}

MapPositionsReplies ==
    {Reply(200, PositionsBody(<<AlpacaPosition("abc", JStr("long"), "150")>>), None),
     Reply(403, MessageBody, None),
     Reply(200, SplitBody, None)}

OrderPayloads(token) ==
    {OrderResponse("o1", coid, status, filled_qty, avg, created_at) :
        coid \in {token, "broker-assigned"},
        status \in {"new", "partially_filled", "rejected", "held"},
        filled_qty \in {"7", "abc"},
        avg \in {None, Some("150"), Some("abc")},
        created_at \in {"2024-01-02T03:04:05Z", "yesterday"}}

MapPositions ==
    \E items \in SeqsUpTo(PositionEntries, MaxPositions), long \in BOOLEAN :
        LET body == IF long THEN LongPositionsBody(items) ELSE PositionsBody(items)
        IN  /\ mapIn' = [fn |-> "get_positions", payload |-> [items |-> items]]
            /\ mapOut' = AlpacaClient_get_positions(MapClient, Reply(200, body, None)).res
            /\ UNCHANGED <<client, orders, call, prev, lastInit,
                           pc, lockHolder, poisoned, treq, snap, tout>>

MapAccount ==
    \E a \in AccountPayloads, rawPos \in MapPositionsReplies, now \in Clock :
        /\ mapIn' = [fn |-> "get_account", payload |-> a, rawPos |-> rawPos]
        /\ mapOut' = AlpacaClient_get_account(MapClient, Reply(200, AccountBody(a), None),
                                              rawPos, now).res
        /\ UNCHANGED <<client, orders, call, prev, lastInit,
                       pc, lockHolder, poisoned, treq, snap, tout>>

MapOrder ==
    \E req \in SubmitRequests, rnd \in RandomU64, now \in Clock :
        \E resp \in OrderPayloads(client_order_id_for(rnd)) :
            /\ mapIn' = [fn |-> "submit_order", payload |-> resp]
            /\ mapOut' = AlpacaClient_submit_order(MapClient, req.order, rnd,
                                                   Reply(200, OrderBody(resp), None), now).res
            /\ UNCHANGED <<client, orders, call, prev, lastInit,
                           pc, lockHolder, poisoned, treq, snap, tout>>

NextMap == MapPositions \/ MapAccount \/ MapOrder

SpecMap == Init /\ [][NextMap]_vars

Unparsable(s) == parse_f64(s).tag = "Err"

\* C8: for every entry of a positions response get_positions produces a
\* Position whose quantity is strictly negative when the side is "short" and
\* equal to +qty when the side is "long" or absent, for any upstream qty.
C8_ShortIsNegative ==
    (mapIn # None /\ mapIn.fn = "get_positions") =>
        \A i \in 1..Len(mapIn.payload.items) :
            LET e == mapIn.payload.items[i]
            IN  /\ mapOut.tag = "Ok"
                /\ Len(mapOut.val) = Len(mapIn.payload.items)
                /\ e.side = JStr("short") => mapOut.val[i].quantity < 0
                /\ e.side \in {JStr("long"), JAbsent} =>
                      mapOut.val[i].quantity = parse_amount(e.qty)

\* C9: for an unparsable numeric field of a brokerage response (account
\* amounts and day-trade count, position quantities and prices, order filled
\* quantity and average fill price) the mapped field is 0.0 and the
\* enclosing call still succeeds.  Each field is judged in a response that is
\* otherwise well formed: the other typed fields decode, every position has
\* its side, and the positions exchange nested in get_account does not fault.
C9_UnparsableIsZero ==
    /\ (/\ mapIn # None /\ mapIn.fn = "get_account"
        /\ AlpacaClient_get_positions(MapClient, mapIn.rawPos).res.tag # "Panic") =>
          LET a == mapIn.payload
              others_decode == a.daytrade_count.t # "str"
          IN  /\ (Unparsable(a.cash) /\ others_decode) =>
                    (mapOut.tag = "Ok" /\ mapOut.val.balance.available_cash = 0)
              /\ (Unparsable(a.equity) /\ others_decode) =>
                    (mapOut.tag = "Ok" /\ mapOut.val.balance.total_equity = 0)
              /\ (Unparsable(a.buying_power) /\ others_decode) =>
                    (mapOut.tag = "Ok" /\ mapOut.val.balance.buying_power = 0)
              /\ a.daytrade_count.t = "str" =>
                    (mapOut.tag = "Ok" /\ mapOut.val.extensions.val.daytrade_count = Some(0))
    /\ (/\ mapIn # None /\ mapIn.fn = "get_positions"
        /\ \A i \in 1..Len(mapIn.payload.items) : mapIn.payload.items[i].side.t = "str") =>
          \A i \in 1..Len(mapIn.payload.items) :
              LET e == mapIn.payload.items[i]
              IN  /\ Unparsable(e.qty) =>
                        (mapOut.tag = "Ok" /\ mapOut.val[i].quantity = 0)
                  /\ Unparsable(e.avg_entry_price) =>
                        (mapOut.tag = "Ok" /\ mapOut.val[i].average_price = 0)
    /\ (mapIn # None /\ mapIn.fn = "submit_order") =>
          LET o == mapIn.payload
          IN  /\ Unparsable(o.filled_qty) =>
                    (mapOut.tag = "Ok" /\ mapOut.val.filled_quantity = 0)
              /\ (is_some(o.filled_avg_price) /\ Unparsable(o.filled_avg_price.val)) =>
                    (mapOut.tag = "Ok" /\ mapOut.val.average_filled_price = Some(0))

-----------------------------------------------------------------------------
(* Specification of concurrent callers.  A call decodes its request, takes *)
(* the STATE lock (recovering it when poisoned), reads the client slot,    *)
(* runs, writes its state update, and releases the lock on return.  The    *)
(* replacement of the client and the insertion into the order cache are    *)
(* not atomic stores: each is a step that begins and a step that ends,     *)
(* with the value incomplete in between.                                   *)

TornClient == [tag |-> "Torn"]
TornOrder == [tag |-> "Torn"]

ConfigA == [api_key |-> JStr("AK1"), api_secret |-> JStr("S1"), is_paper |-> JAbsent]
ConfigB == [api_key |-> JStr("AK2"), api_secret |-> JStr("S2"), is_paper |-> JBool(FALSE)]
ConfigBad == [api_key |-> JStr("AK1"), api_secret |-> JStr(""), is_paper |-> JAbsent]

Request(op, req, raws) == [op |-> op, req |-> req, raws |-> raws]

\* the calls of the concurrent specification, each with the answers the host
\* will give to its exchanges
ConcRequests ==
    {Request("initialize", c, <<>>) : c \in {ConfigA, ConfigB, ConfigBad}}
    \cup {Request("get_accounts", None,
                  <<Reply(200, AccountBody(AlpacaAccount("10", "150", "150", JInt(0), JNull)),
                          None),
                    Reply(403, MessageBody, None)>>)}
    \cup {Request("get_positions", None, <<raw>>) :
             raw \in {Reply(200, PositionsBody(<<>>), None), Reply(200, SplitBody, None)}}
    \cup {Request("submit_order", [order |-> OrderRequest("Buy", "Market", None, "persona-1")],
                  <<Reply(200, OrderBody(OrderResponse(id, "KL0000000000001234", "new", "0",
                                                       None, "2024-01-02T03:04:05Z")), None)>>) :
             id \in {"o1", "o2"}}
    \cup {Request("cancel_order", [order_id |-> "o1"], <<Reply(204, EmptyBody, None)>>)}

\* the entry point named by request r, run on state st
RunCall(st, r) ==
    CASE r.op = "initialize" -> initialize(st, r.req)
      [] r.op = "get_accounts" -> get_accounts(st, r.raws[1], r.raws[2], 1)
      [] r.op = "get_positions" -> get_positions(st, r.raws[1])
      [] r.op = "submit_order" -> submit_order(st, r.req, 4660, r.raws[1], 1)
      [] r.op = "cancel_order" -> cancel_order(st, r.req, r.raws[1])

\* A faulty variant of Mutex::lock: the lock is granted whoever holds it
lock_free_unchecked(holder) == TRUE

\* Mutex::lock grants the lock only when nobody holds it
lock_free(holder) == holder = 0

\* parse_request: the call has its request, and does not hold the lock yet
Enter(t) ==
    /\ pc[t] = "idle"
    /\ \E r \in ConcRequests : treq' = [treq EXCEPT ![t] = r]
    /\ pc' = [pc EXCEPT ![t] = "parsed"]
    /\ UNCHANGED <<client, orders, call, prev, lastInit, mapIn, mapOut,
                   lockHolder, poisoned, snap, tout>>

\* Mutex::lock on a free mutex: the guard, wrapped in a PoisonError when a
\* holder panicked before
Mutex_lock(p) ==
    IF p THEN [tag |-> "Err", guard |-> "guard"] ELSE [tag |-> "Ok", val |-> "guard"]

\* STATE.lock().unwrap_or_else(|e| e.into_inner()): the guard is taken out of
\* the PoisonError
lock_state(p) ==
    LET r == Mutex_lock(p)
    IN  IF r.tag = "Ok" THEN Ok(r.val) ELSE Ok(r.guard)

\* the call takes the lock; a poisoned lock is taken like a clean one.  (Were
\* taking it to panic, the call would be over with no response, the guard
\* inside the error being dropped on the way out.)
Lock(t) ==
    /\ pc[t] = "parsed"
    /\ lock_free(lockHolder)
    /\ lockHolder' = t
    /\ IF lock_state(poisoned).tag = "Ok"
       THEN /\ pc' = [pc EXCEPT ![t] = "locked"]
            /\ tout' = tout
       ELSE /\ pc' = [pc EXCEPT ![t] = "done"]
            /\ tout' = [tout EXCEPT ![t] = Outcome(State, <<>>, Panic)]
    /\ UNCHANGED <<client, orders, call, prev, lastInit, mapIn, mapOut,
                   poisoned, treq, snap>>

\* state.client.as_ref()
ReadClient(t) ==
    /\ pc[t] = "locked"
    /\ snap' = [snap EXCEPT ![t] = client]
    /\ pc' = [pc EXCEPT ![t] = "read"]
    /\ UNCHANGED <<client, orders, call, prev, lastInit, mapIn, mapOut,
                   lockHolder, poisoned, treq, tout>>

\* the body of the entry point up to its state update, exchanges included
Run(t) ==
    /\ pc[t] = "read"
    /\ snap[t] # TornClient
    /\ LET o == RunCall([client |-> snap[t], orders |-> orders], treq[t])
       IN  /\ tout' = [tout EXCEPT ![t] = o]
           /\ pc' = [pc EXCEPT ![t] =
                        IF o.client # snap[t] THEN "write"
                        ELSE IF o.orders # orders THEN "insert"
                        ELSE "done"]
    /\ UNCHANGED <<client, orders, call, prev, lastInit, mapIn, mapOut,
                   lockHolder, poisoned, treq, snap>>

\* state.client = Some(client): the store begins
WriteBegin(t) ==
    /\ pc[t] = "write"
    /\ client' = TornClient
    /\ pc' = [pc EXCEPT ![t] = "writing"]
    /\ UNCHANGED <<orders, call, prev, lastInit, mapIn, mapOut,
                   lockHolder, poisoned, treq, snap, tout>>

\* state.client = Some(client): the store is complete
WriteEnd(t) ==
    /\ pc[t] = "writing"
    /\ client' = tout[t].client
    /\ pc' = [pc EXCEPT ![t] = "done"]
    /\ UNCHANGED <<orders, call, prev, lastInit, mapIn, mapOut,
                   lockHolder, poisoned, treq, snap, tout>>

\* state.orders.insert(order_id, order): the insertion begins
InsertBegin(t) ==
    /\ pc[t] = "insert"
    /\ orders' = map_insert(orders, tout[t].response.order.id, TornOrder)
    /\ pc' = [pc EXCEPT ![t] = "inserting"]
    /\ UNCHANGED <<client, call, prev, lastInit, mapIn, mapOut,
                   lockHolder, poisoned, treq, snap, tout>>

\* state.orders.insert(order_id, order): the insertion is complete
InsertEnd(t) ==
    /\ pc[t] = "inserting"
    /\ orders' = map_insert(orders, tout[t].response.order.id, tout[t].response.order)
    /\ pc' = [pc EXCEPT ![t] = "done"]
    /\ UNCHANGED <<client, call, prev, lastInit, mapIn, mapOut,
                   lockHolder, poisoned, treq, snap, tout>>

\* the call returns: the guard is dropped
Unlock(t) ==
    /\ pc[t] = "done"
    /\ tout[t].response # Panic
    /\ lockHolder' = IF lockHolder = t THEN 0 ELSE lockHolder
    /\ pc' = [pc EXCEPT ![t] = "idle"]
    /\ treq' = [treq EXCEPT ![t] = None]
    /\ snap' = [snap EXCEPT ![t] = None]
    /\ tout' = [tout EXCEPT ![t] = None]
    /\ UNCHANGED <<client, orders, call, prev, lastInit, mapIn, mapOut, poisoned>>

\* The call panicked under the guard and the panic unwinds up to the extern
\* "C" entry point: the guard is dropped on the way, which releases and
\* poisons the lock.  The process is still running: a call waiting in
\* STATE.lock() can take the poisoned lock now.
Unwind(t) ==
    /\ pc[t] = "done"
    /\ tout[t].response = Panic
    /\ lockHolder' = lock_after_panic(t, "unwind").lockHolder
    /\ poisoned' = lock_after_panic(t, "unwind").poisoned
    /\ pc' = [pc EXCEPT ![t] = "unwound"]
    /\ UNCHANGED <<client, orders, call, prev, lastInit, mapIn, mapOut,
                   treq, snap, tout>>

\* the unwinding has reached the extern "C" entry point, which it cannot
\* leave: the process ends, with every thread in it
CannotUnwind(t) ==
    /\ pc[t] = "unwound"
    /\ pc' = Aborted
    /\ UNCHANGED <<client, orders, call, prev, lastInit, mapIn, mapOut,
                   lockHolder, poisoned, treq, snap, tout>>

\* The call panicked under the guard in a build with panic = abort: the
\* process ends on the spot, no destructor runs and the lock stays held.
Abort(t) ==
    /\ pc[t] = "done"
    /\ tout[t].response = Panic
    /\ lockHolder' = lock_after_panic(t, "abort").lockHolder
    /\ poisoned' = lock_after_panic(t, "abort").poisoned
    /\ pc' = Aborted
    /\ UNCHANGED <<client, orders, call, prev, lastInit, mapIn, mapOut,
                   treq, snap, tout>>

NextConc ==
    \E t \in Threads :
        \/ Enter(t) \/ Lock(t) \/ ReadClient(t) \/ Run(t)
        \/ WriteBegin(t) \/ WriteEnd(t) \/ InsertBegin(t) \/ InsertEnd(t)
        \/ Unlock(t) \/ Unwind(t) \/ CannotUnwind(t) \/ Abort(t)

SpecConc == Init /\ [][NextConc]_vars

Holding(t) == pc[t] \in {"locked", "read", "write", "writing", "insert", "inserting", "done"}
CacheComplete == \A id \in DOMAIN orders : orders[id] # TornOrder

\* C6: with concurrent callers at most one call holds the adapter state at
\* any time, from before it reads the client slot until its state updates
\* are finished, so no call observes a client that is being replaced or an
\* order cache in the middle of an insert.
C6_OneHolderAtATime ==
    /\ \A t, u \in Threads : (Holding(t) /\ Holding(u)) => t = u
    /\ \A t \in Threads : Holding(t) => lockHolder = t
    /\ \A t \in Threads : snap[t] # TornClient
    /\ \A t \in Threads :
          pc[t] \in {"locked", "read", "write", "insert"} =>
              (client # TornClient /\ CacheComplete)

\* one call is in the middle of replacing the client while another call,
\* its request decoded, waits for the lock
C6_Witness ==
    \E t, u \in Threads :
        /\ t # u
        /\ pc[t] = "writing"
        /\ client = TornClient
        /\ pc[u] = "parsed"
        /\ treq[u].op = "get_positions"

\* the call of thread t met, in one of its exchanges, a 2xx body that is cut
\* inside a character at offset 200
OwnExchangeFaults(t) ==
    \E i \in 1..Len(treq[t].raws) :
        /\ is_success(execute(treq[t].raws[i]))
        /\ ~is_char_boundary_cut(treq[t].raws[i].body)

\* C12: a call that faults while it holds the state lock does not disable
\* the adapter: the adapter goes on serving, so that a later call can be
\* made; the lock is never left held by a call that is over, so a later
\* call can take it; a later call gets a normal response (unless one of its
\* own exchanges faults); and the state a later call finds is whole, client
\* and order cache being as the faulted call left them.
C12_FaultDoesNotDisable ==
    /\ Alive
    /\ lockHolder # 0 => Holding(lockHolder)
    /\ \A t \in Threads :
          (pc[t] = "done" /\ tout[t].response = Panic) => OwnExchangeFaults(t)
    /\ lockHolder = 0 => (client # TornClient /\ CacheComplete)
====
